---- MODULE Spec2Model ----
(***************************************************************************)
(* API_Key_Generator.c: generate_api_key builds a 32-character key from    *)
(* bytes of /dev/urandom; add_key_to_properties reads the properties file  *)
(* with fgets into a 1024-byte buffer, extends (or creates) the            *)
(* api.security.keys line and rewrites the file; main chains the two and   *)
(* sets the exit status.  A character is a one-character string, a C       *)
(* string a sequence of characters, a file a sequence of characters with   *)
(* "\n" between its lines.                                                 *)
(***************************************************************************)
EXTENDS Integers, Sequences, FiniteSets, TLC

\* ------------------------------------------------------------ constants

KEY_LENGTH == 32

MAX_LINE_LENGTH == 1024

\* The terminating byte of a C string.
NUL == "NUL"

\* const char charset[]: 62 symbols and the terminator, so sizeof is 63.
charset ==
    << "A","B","C","D","E","F","G","H","I","J","K","L","M",
       "N","O","P","Q","R","S","T","U","V","W","X","Y","Z",
       "a","b","c","d","e","f","g","h","i","j","k","l","m",
       "n","o","p","q","r","s","t","u","v","w","x","y","z",
       "0","1","2","3","4","5","6","7","8","9", NUL >>

SizeofCharset == Len(charset)

\* The literal "api.security.keys=" of the strncmp and the snprintf.
KeysPrefix ==
    << "a","p","i",".","s","e","c","u","r","i","t","y",".","k","e","y","s","=" >>

\* ------------------------------------------------------------ bounds

\* Lines of the properties file before the first run.
MaxLines == 2

\* Invocations of the utility in a row.
MaxRuns == 2

\* I/O failures the environment produces in one behaviour.
MaxFaults == 1

\* ------------------------------------------------------------ helpers

Min(a, b) == IF a <= b THEN a ELSE b

Take(s, n) == SubSeq(s, 1, Min(n, Len(s)))

Drop(s, n) == SubSeq(s, n + 1, Len(s))

Fill(n) == [i \in 1..n |-> "x"]

\* The string a char array holds: the characters before its first NUL.
CStr(buf) ==
    LET z == {i \in 1..Len(buf) : buf[i] = NUL}
    IN  IF z = {} THEN buf
        ELSE SubSeq(buf, 1, (CHOOSE i \in z : \A j \in z : i <= j) - 1)

\* ---------------------------------------------------- generate_api_key

\* The conversion loop with the modulus taken over sizeof(charset), the
\* terminator counted in.
KeyFromBufferNoMinusOne(buf, length) ==
    [i \in 1..(length + 1) |->
        IF i <= length THEN charset[(buf[i] % SizeofCharset) + 1] ELSE NUL]

\* The conversion loop: key[i] = charset[buffer[i] % (sizeof(charset) - 1)],
\* then key[length] = '\0'.
KeyFromBuffer(buf, length) ==
    [i \in 1..(length + 1) |->
        IF i <= length THEN charset[(buf[i] % (SizeofCharset - 1)) + 1] ELSE NUL]

\* unsigned char buffer[length] after read(fd, buffer, length) returned n:
\* the first n bytes come from the device, the others keep whatever the
\* stack held (n <= 0: all of them).
BufferAfterRead(stack, dev, n, length) ==
    [i \in 1..length |-> IF i <= n THEN dev[i] ELSE stack[i]]

\* ------------------------------------------------ add_key_to_properties

\* One fgets(line, sizeof(line), file) on the unread rest of the file: the
\* number of characters it stores, at most sizeof(line) - 1, ending after
\* the first newline.
Fgets(rest) ==
    LET w  == Take(rest, MAX_LINE_LENGTH - 1)
        nl == {i \in 1..Len(w) : w[i] = "\n"}
    IN  IF nl = {} THEN Len(w) ELSE CHOOSE i \in nl : \A j \in nl : i <= j

\* Remove newline character if present.
StripNewline(line) ==
    IF Len(line) > 0 /\ line[Len(line)] = "\n"
    THEN SubSeq(line, 1, Len(line) - 1) ELSE line

\* The while loop's stored lines, read to the end of the file.
RECURSIVE ReadLines(_)
ReadLines(rest) ==
    IF rest = << >> THEN << >>
    ELSE LET n == Fgets(rest)
         IN  << StripNewline(Take(rest, n)) >> \o ReadLines(Drop(rest, n))

\* strncmp(line, "api.security.keys=", 18) == 0
IsKeysLine(line) ==
    Len(line) >= Len(KeysPrefix) /\ SubSeq(line, 1, Len(KeysPrefix)) = KeysPrefix

\* key_line_index after the loop: every matching line overwrites it, so
\* it is the zero-based index of the last match, or -1.
KeyLineIndex(ls) ==
    LET m == {i \in 1..Len(ls) : IsKeysLine(ls[i])}
    IN  IF m = {} THEN -1
        ELSE (CHOOSE i \in m : \A j \in m : j <= i) - 1

\* snprintf(new_line, sizeof(new_line), ...): the formatted text cut to
\* sizeof(new_line) - 1 characters.
Snprintf(text) == Take(text, MAX_LINE_LENGTH - 1)

\* The lines array after the append-or-create branch.
EditLines(ls, key) ==
    LET k == KeyLineIndex(ls)
    IN  IF k = -1
        THEN Append(ls, Snprintf(KeysPrefix \o CStr(key)))
        ELSE [ls EXCEPT ![k + 1] = Snprintf(ls[k + 1] \o << "," >> \o CStr(key))]

\* fprintf(file, "%s\n", lines[i]) for i < n.
RECURSIVE WriteLines(_, _)
WriteLines(ls, n) ==
    IF n = 0 THEN << >>
    ELSE WriteLines(ls, n - 1) \o ls[n] \o << "\n" >>

\* ------------------------------------------------------------ inputs

\* 32 bytes of the entropy device, or of an uninitialised stack frame.
Bytes(seed) == [i \in 1..KEY_LENGTH |-> (seed + i - 1) % 256]

Seeds == {0, 131}

StackSeeds == {61, 250}

\* What read(fd, buffer, length) may return: an error, a short read, all.
ReadResults == {-1, KEY_LENGTH \div 2, KEY_LENGTH}

ShortLine == << "p", "=", "1" >>

CommentedKeys == << "#" >> \o KeysPrefix \o << "o", "l", "d" >>

EmptyKeys == KeysPrefix

ShortKeys == KeysPrefix \o << "a", "b", "c" >>

\* A keys line that one more ",<token>" still fits in the line buffer and
\* a second one does not.
NearFullKeys ==
    KeysPrefix \o Fill(MAX_LINE_LENGTH - 1 - Len(KeysPrefix) - (KEY_LENGTH + 1) - 10)

\* A line longer than the line buffer.
LongLine == << "q", "=" >> \o Fill(MAX_LINE_LENGTH + 4)

InitialLines ==
    {ShortLine, CommentedKeys, EmptyKeys, ShortKeys, NearFullKeys, LongLine}

\* The text of a file with these lines, the last one with or without its
\* newline.
FileText(ls, terminated) ==
    LET t == WriteLines(ls, Len(ls))
    IN  IF terminated \/ ls = << >> THEN t ELSE SubSeq(t, 1, Len(t) - 1)

InitialFiles ==
    {FileText(ls, term) :
        ls \in UNION {[1..n -> InitialLines] : n \in 0..MaxLines},
        term \in BOOLEAN}

NoFile == [exists |-> FALSE, data |-> << >>]

NoFault ==
    [urandom_open |-> TRUE, nread |-> KEY_LENGTH,
     fopen_r |-> TRUE, read_error |-> FALSE,
     fopen_w |-> TRUE, write_error |-> FALSE]

\* ------------------------------------------------------------ state

VARIABLES
    pc,           \* "main": before generate_api_key; "add": before
                  \* add_key_to_properties; "exited"
    fs,           \* the properties file: [exists, data]
    urandom,      \* the bytes /dev/urandom delivers to this run
    buffer,       \* generate_api_key's buffer[length]
    api_key,      \* main's api_key[KEY_LENGTH + 1]
    exit_status,  \* -1 while the process runs
    out,          \* standard output of this run
    err,          \* standard error of this run
    run,          \* invocations so far, this one included
    faults,       \* I/O failures so far
    io,           \* what each I/O call of this run returned
    pre,          \* the file when this run started
    F0,           \* the file before the first run
    tokens        \* the keys generated by the runs so far, in order

vars ==
    << pc, fs, urandom, buffer, api_key, exit_status, out, err, run,
       faults, io, pre, F0, tokens >>

Blank(n) == [i \in 1..n |-> NUL]

ProcessStart(file, dev) ==
    /\ pc = "main"
    /\ fs = file
    /\ urandom = dev
    /\ buffer = << >>
    /\ api_key = Blank(KEY_LENGTH + 1)
    /\ exit_status = -1
    /\ out = << >>
    /\ err = << >>
    /\ run = 1
    /\ faults = 0
    /\ io = NoFault
    /\ pre = file
    /\ F0 = file
    /\ tokens = << >>

Init ==
    \E file \in {NoFile} \cup {[exists |-> TRUE, data |-> d] : d \in InitialFiles},
       seed \in Seeds :
        ProcessStart(file, Bytes(seed))

\* ------------------------------------------------------------ actions

\* generate_api_key, open("/dev/urandom") < 0: perror and exit(1).
UrandomOpenFails ==
    /\ pc = "main"
    /\ faults < MaxFaults
    /\ faults' = faults + 1
    /\ io' = [io EXCEPT !.urandom_open = FALSE]
    /\ err' = Append(err, "Error while opening /dev/urandom")
    /\ exit_status' = 1
    /\ pc' = "exited"
    /\ UNCHANGED << fs, urandom, buffer, api_key, out, run, pre, F0, tokens >>

\* generate_api_key with the device open, then main's printf: the result
\* of read is not looked at.
GenerateKey ==
    /\ pc = "main"
    /\ \E n \in ReadResults, seed \in StackSeeds :
        /\ n < KEY_LENGTH => faults < MaxFaults
        /\ faults' = IF n < KEY_LENGTH THEN faults + 1 ELSE faults
        /\ io' = [io EXCEPT !.nread = n]
        /\ buffer' = BufferAfterRead(Bytes(seed), urandom, n, KEY_LENGTH)
    /\ api_key' = KeyFromBuffer(buffer', KEY_LENGTH)
    /\ out' = Append(out, << "Generated API Key: ", CStr(api_key') >>)
    /\ tokens' = Append(tokens, CStr(api_key'))
    /\ pc' = "add"
    /\ UNCHANGED << fs, urandom, exit_status, err, run, pre, F0 >>

generate_api_key == UrandomOpenFails \/ GenerateKey

\* main after add_key_to_properties returned r.
MainReturns(r, errs) ==
    /\ exit_status' = r
    /\ out' = IF r = 0
              THEN Append(out, "API Key successfully added to application.properties")
              ELSE out
    /\ err' = IF r = 0 THEN err \o errs
              ELSE err \o errs \o << "Failed to add API Key to application.properties" >>
    /\ pc' = "exited"

\* fopen(PROPERTIES_FILE, "r") == NULL: return 1.
OpenForReadingFails ==
    /\ pc = "add"
    /\ \/ ~fs.exists /\ UNCHANGED faults
       \/ fs.exists /\ faults < MaxFaults /\ faults' = faults + 1
    /\ io' = [io EXCEPT !.fopen_r = FALSE]
    /\ MainReturns(1, << "Error opening application.properties for reading" >>)
    /\ UNCHANGED << fs, urandom, buffer, api_key, run, pre, F0, tokens >>

Warning == "Warning: api.security.keys line not found, adding new line"

\* The file opened for reading: k lines are read before fgets returns NULL
\* (at the end of the file, or earlier on a read error), the lines are
\* edited, and the file is opened for writing: that fails, or j lines are
\* written (all of them, or fewer when a write fails; no result of fprintf
\* or fclose is looked at).
ReadEditWrite ==
    /\ pc = "add"
    /\ fs.exists
    /\ LET all == ReadLines(fs.data)
       IN  \E k \in 0..Len(all), w_ok \in BOOLEAN :
            LET lines    == SubSeq(all, 1, k)
                warn     == IF KeyLineIndex(lines) = -1 THEN << Warning >> ELSE << >>
                edited   == EditLines(lines, api_key)
                nfault   == (IF k < Len(all) THEN 1 ELSE 0) + (IF w_ok THEN 0 ELSE 1)
            IN  /\ faults + nfault <= MaxFaults
                /\ IF ~w_ok
                   THEN /\ faults' = faults + nfault
                        /\ io' = [io EXCEPT !.read_error = (k < Len(all)),
                                            !.fopen_w = FALSE]
                        /\ MainReturns(1, warn \o
                             << "Error opening application.properties for writing" >>)
                        /\ UNCHANGED fs
                   ELSE \E j \in 0..Len(edited) :
                        /\ faults + nfault + (IF j < Len(edited) THEN 1 ELSE 0) <= MaxFaults
                        /\ faults' = faults + nfault + (IF j < Len(edited) THEN 1 ELSE 0)
                        /\ io' = [io EXCEPT !.read_error = (k < Len(all)),
                                            !.write_error = (j < Len(edited))]
                        /\ fs' = [fs EXCEPT !.data = WriteLines(edited, j)]
                        /\ MainReturns(0, warn)
    /\ UNCHANGED << urandom, buffer, api_key, run, pre, F0, tokens >>

add_key_to_properties == OpenForReadingFails \/ ReadEditWrite

\* The operator runs the utility again on the file as the last run left it.
Invoke ==
    /\ pc = "exited"
    /\ run < MaxRuns
    /\ run' = run + 1
    /\ \E seed \in Seeds : urandom' = Bytes(seed)
    /\ pc' = "main"
    /\ buffer' = << >>
    /\ api_key' = Blank(KEY_LENGTH + 1)
    /\ exit_status' = -1
    /\ out' = << >>
    /\ err' = << >>
    /\ io' = NoFault
    /\ pre' = fs
    /\ UNCHANGED << fs, faults, F0, tokens >>

Next == generate_api_key \/ add_key_to_properties \/ Invoke

Spec == Init /\ [][Next]_vars

\* ------------------------------------------- the token generator alone

ByteValues == 0..255

\* generate_api_key on every byte value at every position of the buffer.
TokenInit ==
    \E b \in ByteValues :
        ProcessStart([exists |-> TRUE, data |-> FileText(<< ShortKeys >>, TRUE)],
                     Bytes(b))

SpecToken == TokenInit /\ [][generate_api_key]_vars

\* ------------------------------------------------- the claims' notions

\* The lines of a text: the characters between its newlines, a last line
\* without a newline included.
RECURSIVE SplitLines(_)
SplitLines(text) ==
    IF text = << >> THEN << >>
    ELSE LET nl == {i \in 1..Len(text) : text[i] = "\n"}
         IN  IF nl = {} THEN << text >>
             ELSE LET n == CHOOSE i \in nl : \A j \in nl : i <= j
                  IN  << SubSeq(text, 1, n - 1) >> \o SplitLines(Drop(text, n))

StartsWithKeys(l) ==
    Len(l) >= 18 /\ SubSeq(l, 1, 18) = KeysPrefix

NonKeysLines(ls) == SelectSeq(ls, LAMBDA l : ~StartsWithKeys(l))

KeysIndices(ls) == {i \in 1..Len(ls) : StartsWithKeys(ls[i])}

Lowest(S) == CHOOSE i \in S : \A j \in S : i <= j

\* A line that, extended by ",<token>", still fits the line buffer with
\* its newline.
FitsExtended(l) == Len(l) + 1 + KEY_LENGTH + 1 < MAX_LINE_LENGTH

Token == CStr(api_key)

\* ",t1,t2,...,tn"
RECURSIVE Segments(_)
Segments(ts) ==
    IF ts = << >> THEN << >>
    ELSE << "," >> \o Head(ts) \o Segments(Tail(ts))

Alphabet ==
    << "A","B","C","D","E","F","G","H","I","J","K","L","M",
       "N","O","P","Q","R","S","T","U","V","W","X","Y","Z" >>
    \o << "a","b","c","d","e","f","g","h","i","j","k","l","m",
          "n","o","p","q","r","s","t","u","v","w","x","y","z" >>
    \o << "0","1","2","3","4","5","6","7","8","9" >>

\* This run made every I/O call succeed.
NoFailure == io = NoFault

\* The run is over and add_key_to_properties returned success with no
\* I/O call having failed.
SuccessfulRun == pc = "exited" /\ exit_status = 0 /\ NoFailure

InLines == SplitLines(pre.data)

OutLines == SplitLines(fs.data)

\* ------------------------------------------------------------ claims

\* C1: after a successful run every line of the input file that does not
\* start with api.security.keys= is in the rewritten file, in the same
\* relative order and with the same content, whatever its length.
C1_LinePreservation ==
    SuccessfulRun => NonKeysLines(OutLines) = NonKeysLines(InLines)

\* C2: if the file holds a keys line api.security.keys=V, then after a run
\* that returns success with token T that line reads api.security.keys=V,T
\* with the whole 32-character token.  Stated for files with one keys line
\* and no other line longer than the line buffer, no I/O call of this or
\* of an earlier run having failed.
C2_AppendSemantics ==
    (/\ SuccessfulRun
     /\ faults = 0
     /\ Cardinality(KeysIndices(InLines)) = 1
     /\ \A i \in 1..Len(InLines) :
            ~StartsWithKeys(InLines[i]) => Len(InLines[i]) < MAX_LINE_LENGTH - 1)
    => LET k == Lowest(KeysIndices(InLines))
       IN  /\ Len(Token) = KEY_LENGTH
           /\ Len(OutLines) = Len(InLines)
           /\ OutLines[k] = InLines[k] \o << "," >> \o Token

\* C3: when the input file has two or more keys lines, only the first one
\* is extended with ",<token>" and every later one is written back
\* verbatim.  Stated for files whose lines all fit the line buffer.
C3_FirstKeysLineExtended ==
    (/\ SuccessfulRun
     /\ Cardinality(KeysIndices(InLines)) >= 2
     /\ \A i \in 1..Len(InLines) : FitsExtended(InLines[i]))
    => LET first == Lowest(KeysIndices(InLines))
       IN  /\ Len(OutLines) = Len(InLines)
           /\ OutLines[first] = InLines[first] \o << "," >> \o Token
           /\ \A j \in KeysIndices(InLines) :
                  j > first => OutLines[j] = InLines[j]

\* C4: the program exits 0 if and only if the properties file was
\* rewritten with every I/O call succeeding; a failure of opening or
\* writing the file (a write that fails after the file was opened for
\* writing included) yields exit status 1.  Stated for runs whose entropy
\* read and file reads succeed.
C4_ExitCodes ==
    (pc = "exited" /\ io.nread = KEY_LENGTH /\ ~io.read_error) =>
        /\ exit_status \in {0, 1}
        /\ exit_status = 0 <=> NoFailure

\* C5: if a line of the source file is longer than the maximum line length
\* the run fails with status 1 and the file is not rewritten.
C5_LineTooLong ==
    (/\ pc = "exited"
     /\ NoFailure
     /\ \E i \in 1..Len(InLines) : Len(InLines[i]) > MAX_LINE_LENGTH)
    => exit_status = 1 /\ fs = pre

\* C6: if the file cannot be opened for reading, or a read fails part-way,
\* the run ends with status 1 and the file is as it was (a missing file is
\* not created).
C6_ReadFailureNoWrite ==
    (pc = "exited" /\ io.urandom_open /\ (~io.fopen_r \/ io.read_error))
    => exit_status = 1 /\ fs = pre

\* C7: if the entropy source cannot be opened or read, no token is
\* produced from unread bytes, the file is not changed and the exit status
\* is 1.
C7_EntropyFailure ==
    (~io.urandom_open \/ io.nread < KEY_LENGTH)
    => /\ Len(tokens) < run
       /\ fs = pre
       /\ pc = "exited" => exit_status = 1

\* C8: if the input file holds no line starting with api.security.keys=,
\* then after the run the file is the original lines followed by one new
\* last line api.security.keys=T, the warning is on standard error and the
\* exit status is 0.  Stated for runs in which no I/O call fails.
C8_CreationSemantics ==
    (/\ pc = "exited"
     /\ NoFailure
     /\ pre.exists
     /\ KeysIndices(InLines) = {})
    => /\ exit_status = 0
       /\ OutLines = InLines \o << KeysPrefix \o Token >>
       /\ \E i \in 1..Len(err) : err[i] = Warning

\* C9: K runs in a row on a file with one keys line leave the file with
\* the same number of lines, one keys line, and that line is the original
\* one followed by the K segments ",<token_i>" in order, each token 32
\* characters long.  Stated for runs in which no I/O call fails and files
\* whose other lines fit the line buffer.
C9_RepeatedRuns ==
    (/\ pc = "exited"
     /\ faults = 0
     /\ F0.exists
     /\ Cardinality(KeysIndices(SplitLines(F0.data))) = 1
     /\ \A i \in 1..Len(SplitLines(F0.data)) :
            ~StartsWithKeys(SplitLines(F0.data)[i])
                => FitsExtended(SplitLines(F0.data)[i]))
    => LET orig == SplitLines(F0.data)
           k    == Lowest(KeysIndices(orig))
       IN  /\ Len(tokens) = run
           /\ \A i \in 1..Len(tokens) : Len(tokens[i]) = KEY_LENGTH
           /\ Len(OutLines) = Len(orig)
           /\ KeysIndices(OutLines) = {k}
           /\ OutLines[k] = orig[k] \o Segments(tokens)

\* C10: every token generate_api_key produces is 32 characters followed by
\* the terminator, and its i-th character is the alphabet symbol (A-Z,
\* a-z, 0-9) at index b mod 62 for the i-th byte b of the buffer.
C10_TokenShape ==
    pc \in {"add", "exited"} /\ io.urandom_open
    => /\ Len(api_key) = 33
       /\ api_key[33] = NUL
       /\ Len(Token) = 32
       /\ \A i \in 1..32 :
            /\ buffer[i] \in ByteValues
            /\ api_key[i] = Alphabet[(buffer[i] % 62) + 1]

\* A key was produced from a buffer whose first byte is 255: 255 mod 62 is
\* 7, the symbol H.
C10_Witness ==
    /\ pc = "add"
    /\ io.nread = KEY_LENGTH
    /\ buffer[1] = 255
    /\ api_key[1] = "H"

====
